---- MODULE Spec2Model ----
(***************************************************************************)
(* freegeoip demo (demos/freegeoip/freegeoip.go): the per-client quota     *)
(* check in front of the lookup handler, and the lookup handler itself.    *)
(*                                                                         *)
(* The quota counter lives in a memcache store.  A request runs checkQuota *)
(* as a sequence of store operations (Get, Set on a miss, Increment); the  *)
(* store executes each operation atomically, and operations of concurrent  *)
(* requests interleave between them.                                       *)
(***************************************************************************)
EXTENDS Integers, Sequences, FiniteSets, TLC

\* ------------------------------------------------------------------ limits
maxRequestsPerIP == 2000
expirySeconds == 3600

\* ------------------------------------------------------------------ bounds
NumProcs == 2        \* requests that can be in flight at once
MaxCalls == 4        \* calls started in one run, the store reachable
MaxCallsFaulty == 2  \* calls started in one run, the store failing at will
ExtraCalls == 2      \* calls issued past the ceiling in the sequential model
NearCeiling == 1     \* pre-loaded counters start at most this far below 2000
TickStep == 1800     \* seconds the clock advances in one step
MaxTime == 3600      \* the clock stops here

Procs == 1..NumProcs

\* RemoteAddr of a request, "host:port"
RemoteAddrs ==
    { [host |-> "198.51.100.7", port |-> 40001],
      [host |-> "198.51.100.7", port |-> 40002],
      [host |-> "203.0.113.9",  port |-> 40001] }

\* strings.Split(req.HTTP.RemoteAddr, ":")[0]
ClientKey(ra) == ra.host

Keys == { ClientKey(ra) : ra \in RemoteAddrs }

\* k of a request that is not in the handler
NoKey == ""

\* ------------------------------------------------ decimal text of a counter
\* A memcache value is a byte string; the counter is its decimal text,
\* modelled as the sequence of its digits.
RECURSIVE Itoa(_)
Itoa(n) == IF n < 10 THEN <<n>> ELSE Append(Itoa(n \div 10), n % 10)

RECURSIVE AtoiAcc(_, _)
AtoiAcc(s, acc) ==
    IF s = <<>> THEN acc ELSE AtoiAcc(Tail(s), acc * 10 + Head(s))

\* strconv.Atoi on the text of a counter (digits only; the error is dropped)
Atoi(s) == AtoiAcc(s, 0)

\* ------------------------------------------------------------ net package
\* An IP is its byte sequence: 16 bytes, 4 bytes, or none (nil).
NilIP == <<>>

v4InV6Prefix == <<0, 0, 0, 0, 0, 0, 0, 0, 0, 0, 255, 255>>

\* net.IPv4(a, b, c, d): the 16-byte form of an IPv4 address
IPv4(a, b, c, d) == v4InV6Prefix \o <<a, b, c, d>>

\* net.IPv4Mask(a, b, c, d): a 4-byte mask
IPv4Mask(a, b, c, d) == <<a, b, c, d>>

\* IP.To4: the 4-byte form, nil when the address is not an IPv4 address
To4(ip) ==
    IF Len(ip) = 4 THEN ip
    ELSE IF Len(ip) = 16 /\ SubSeq(ip, 1, 12) = v4InV6Prefix
            THEN SubSeq(ip, 13, 16)
            ELSE NilIP

\* a & b on bytes
RECURSIVE AndBits(_, _, _)
AndBits(a, b, n) ==
    IF n = 0 THEN 0
    ELSE (a % 2) * (b % 2) + 2 * AndBits(a \div 2, b \div 2, n - 1)

And8(a, b) == AndBits(a, b, 8)

\* IPNet.Contains(ip): both sides are masked, byte by byte
\* (variant: the mask is not applied)
ContainsUnmasked(n, ip) ==
    LET nn == To4(n.IP)
        x == IF To4(ip) # NilIP THEN To4(ip) ELSE ip
    IN  /\ Len(x) = Len(nn)
        /\ \A i \in 1..Len(x) : nn[i] = x[i]

Contains(n, ip) ==
    LET nn == To4(n.IP)
        m == n.Mask
        x == IF To4(ip) # NilIP THEN To4(ip) ELSE ip
    IN  /\ Len(x) = Len(nn)
        /\ \A i \in 1..Len(x) : And8(nn[i], m[i]) = And8(x[i], m[i])

\* The text of an address, as the handler receives it: a dotted quad (its
\* four numbers), an IPv6 address (its 16 bytes), or text that is no address.
DottedQuad(a, b, c, d) == [form |-> "v4", parts |-> <<a, b, c, d>>]
V6Text(bytes) == [form |-> "v6", parts |-> bytes]
Garbage == [form |-> "none", parts |-> <<>>]

\* net.ParseIP: nil unless the text is an address
ParseIP(text) ==
    IF text.form = "v4"
       THEN IF \A i \in 1..4 : text.parts[i] \in 0..255
               THEN IPv4(text.parts[1], text.parts[2],
                         text.parts[3], text.parts[4])
               ELSE NilIP
    ELSE IF text.form = "v6" THEN text.parts
    ELSE NilIP

\* http://en.wikipedia.org/wiki/Reserved_IP_addresses
reservedIPs == <<
    [IP |-> IPv4(0, 0, 0, 0),         Mask |-> IPv4Mask(255, 0, 0, 0)],
    [IP |-> IPv4(0, 0, 0, 0),         Mask |-> IPv4Mask(255, 0, 0, 0)],
    [IP |-> IPv4(10, 0, 0, 0),        Mask |-> IPv4Mask(255, 192, 0, 0)],
    [IP |-> IPv4(100, 64, 0, 0),      Mask |-> IPv4Mask(255, 0, 0, 0)],
    [IP |-> IPv4(127, 0, 0, 0),       Mask |-> IPv4Mask(255, 0, 0, 0)],
    [IP |-> IPv4(169, 254, 0, 0),     Mask |-> IPv4Mask(255, 255, 0, 0)],
    [IP |-> IPv4(172, 16, 0, 0),      Mask |-> IPv4Mask(255, 240, 0, 0)],
    [IP |-> IPv4(192, 0, 0, 0),       Mask |-> IPv4Mask(255, 255, 255, 248)],
    [IP |-> IPv4(192, 0, 2, 0),       Mask |-> IPv4Mask(255, 255, 255, 0)],
    [IP |-> IPv4(192, 88, 99, 0),     Mask |-> IPv4Mask(255, 255, 255, 0)],
    [IP |-> IPv4(192, 168, 0, 0),     Mask |-> IPv4Mask(255, 255, 0, 0)],
    [IP |-> IPv4(198, 18, 0, 0),      Mask |-> IPv4Mask(255, 254, 0, 0)],
    [IP |-> IPv4(198, 51, 100, 0),    Mask |-> IPv4Mask(255, 255, 255, 0)],
    [IP |-> IPv4(203, 0, 113, 0),     Mask |-> IPv4Mask(255, 255, 255, 0)],
    [IP |-> IPv4(224, 0, 0, 0),       Mask |-> IPv4Mask(240, 0, 0, 0)],
    [IP |-> IPv4(240, 0, 0, 0),       Mask |-> IPv4Mask(240, 0, 0, 0)],
    [IP |-> IPv4(255, 255, 255, 255), Mask |-> IPv4Mask(255, 255, 255, 255)] >>

\* for _, net := range reservedIPs { if net.Contains(IP) { reserved = true;
\* break } }: the index of the first entry that contains ip, from entry i
\* on; 0 when none does
RECURSIVE FirstContaining(_, _, _)
FirstContaining(ns, ip, i) ==
    IF i > Len(ns) THEN 0
    ELSE IF Contains(ns[i], ip) THEN i
    ELSE FirstContaining(ns, ip, i + 1)

\* (variant: the scan stops one entry short of the end of the table)
IsReservedButLast(ns, ip) ==
    FirstContaining(SubSeq(ns, 1, Len(ns) - 1), ip, 1) # 0

IsReserved(ns, ip) == FirstContaining(ns, ip, 1) # 0

\* ------------------------------------------- orders of the reserved table
\* the table turned left by r entries, the table back to front, the table
\* with entries i and i + 1 exchanged
Rotated(ns, r) ==
    [i \in 1..Len(ns) |-> ns[((i - 1 + r) % Len(ns)) + 1]]

Reversed(ns) == [i \in 1..Len(ns) |-> ns[Len(ns) + 1 - i]]

Exchanged(ns, i) ==
    IF i \in 1..(Len(ns) - 1)
       THEN [ns EXCEPT ![i] = ns[i + 1], ![i + 1] = ns[i]]
       ELSE ns

MaxRotation == 16
MaxExchange == 16

\* orders of reservedIPs: every rotation, each also back to front, and every
\* exchange of two neighbours
Orders ==
    { Rotated(reservedIPs, r) : r \in 0..MaxRotation }
    \cup { Reversed(Rotated(reservedIPs, r)) : r \in 0..MaxRotation }
    \cup { Exchanged(reservedIPs, i) : i \in 1..MaxExchange }

\* ------------------------------------------------------------- GeoIP record
\* type GeoIP: every field but Ip is the zero value at construction
GeoIP(addr) ==
    [ Ip |-> addr, CountryCode |-> "", CountryName |-> "",
      RegionCode |-> "", RegionName |-> "", CityName |-> "", ZipCode |-> "",
      Latitude |-> 0, Longitude |-> 0, MetroCode |-> "", AreaCode |-> "" ]

\* ------------------------------------------------------------- range table
\* A uint32 is kept as its two 16-bit halves, high half first.
U32(hi, lo) == <<hi, lo>>

LeqU32(x, y) == x[1] < y[1] \/ (x[1] = y[1] /\ x[2] <= y[2])

\* binary.Read(bytes.NewBuffer(IP.To4()), binary.BigEndian, &uintIP): the
\* big-endian value of the four bytes; uintIP stays 0 when there are none
BigEndianUint32(b) ==
    IF Len(b) = 4 THEN U32(b[1] * 256 + b[2], b[3] * 256 + b[4]) ELSE U32(0, 0)

\* The columns the query selects for the block that starts at ip_start.
Row(start, id) ==
    [ ip_start |-> start,
      CountryCode |-> <<"country_code", id>>,
      CountryName |-> <<"country_name", id>>,
      RegionCode |-> <<"region_code", id>>,
      RegionName |-> <<"region_name", id>>,
      CityName |-> <<"city_name", id>>,
      ZipCode |-> <<"postal_code", id>>,
      Latitude |-> id, Longitude |-> 0 - id,
      MetroCode |-> <<"metro_code", id>>,
      AreaCode |-> <<"area_code", id>> ]

\* WHERE city_blocks.ip_start <= ? ORDER BY city_blocks.ip_start DESC LIMIT 1
\* : the rows the query returns, at most one
QueryRows(rows, x) ==
    { r \in rows :
        /\ LeqU32(r.ip_start, x)
        /\ \A o \in rows : LeqU32(o.ip_start, x) => LeqU32(o.ip_start, r.ip_start) }

\* range tables a run can start with
Tables ==
    { {},
      { Row(U32(0, 10), 1), Row(U32(0, 500), 2), Row(U32(0, 1000), 3) },
      { Row(U32(256, 0), 1), Row(U32(2056, 2048), 2),
        Row(U32(51200, 0), 3) },
      { Row(U32(2056, 2049), 1), Row(U32(51200, 1), 2) },
      { Row(U32(0, 0), 1), Row(U32(2056, 2048), 2) } }

\* ------------------------------------------------------ addresses looked up
\* the first and the last address of a network, and the addresses next to them
NetFirst(n) == [i \in 1..4 |-> And8(To4(n.IP)[i], n.Mask[i])]
NetLast(n) == [i \in 1..4 |-> And8(To4(n.IP)[i], n.Mask[i]) + (255 - n.Mask[i])]

Succ4(b) ==
    IF b[4] < 255 THEN <<b[1], b[2], b[3], b[4] + 1>>
    ELSE IF b[3] < 255 THEN <<b[1], b[2], b[3] + 1, 0>>
    ELSE IF b[2] < 255 THEN <<b[1], b[2] + 1, 0, 0>>
    ELSE IF b[1] < 255 THEN <<b[1] + 1, 0, 0, 0>>
    ELSE b

Pred4(b) ==
    IF b[4] > 0 THEN <<b[1], b[2], b[3], b[4] - 1>>
    ELSE IF b[3] > 0 THEN <<b[1], b[2], b[3] - 1, 255>>
    ELSE IF b[2] > 0 THEN <<b[1], b[2] - 1, 255, 255>>
    ELSE IF b[1] > 0 THEN <<b[1] - 1, 255, 255, 255>>
    ELSE b

Quads ==
    UNION { { NetFirst(reservedIPs[i]), NetLast(reservedIPs[i]),
              To4(reservedIPs[i].IP),
              Pred4(NetFirst(reservedIPs[i])), Succ4(NetLast(reservedIPs[i])) }
            : i \in 1..Len(reservedIPs) }
    \cup { <<8, 8, 8, 8>>, <<0, 0, 1, 244>>, <<0, 0, 3, 232>>, <<1, 0, 0, 0>>,
           <<100, 200, 1, 1>>, <<10, 200, 0, 1>>, <<200, 0, 0, 1>> }

Addrs ==
    { DottedQuad(q[1], q[2], q[3], q[4]) : q \in Quads }
    \cup { DottedQuad(256, 0, 0, 1), DottedQuad(10, 0, 0, 300), Garbage,
           V6Text(IPv4(10, 1, 2, 3)), V6Text(IPv4(8, 8, 4, 4)),
           V6Text(<<32, 1, 13, 184, 0, 0, 0, 0, 0, 0, 0, 0, 0, 0, 0, 1>>),
           V6Text(<<0, 0, 0, 0, 0, 0, 0, 0, 0, 0, 0, 0, 0, 0, 0, 1>>) }

\* req.Vars[1], one of csv, json, xml by the handler's route
Formats == { <<"c", "s", "v">>, <<"j", "s", "o", "n">>, <<"x", "m", "l">> }

\* the handler's state before it runs, and while no lookup is modelled
NoRecord == [Ip |-> Garbage]

LkIdle(fmt, addr) ==
    [ pc |-> "start", format |-> fmt, addr |-> addr, IP |-> NilIP,
      reserved |-> FALSE, geoip |-> NoRecord, dbops |-> <<>>, err |-> "",
      status |-> 0, contentType |-> "", body |-> NoRecord ]

LkOff == [LkIdle(<<"j", "s", "o", "n">>, Garbage) EXCEPT !.pc = "off"]

\* ------------------------------------------------------------------- store
NoItem == [present |-> FALSE, val |-> <<>>, exp |-> 0]

\* el == nil
Nil == <<>>

VARIABLES
    store,      \* memcache: key -> item (value text, absolute expiry time)
    now,        \* the store's clock, seconds
    pc,         \* per request: position in checkQuota
    key,        \* per request: k
    el,         \* per request: value of the item Get returned, Nil if none
    http,       \* per request: status written by HTTPError, 0 if none
    fnCalls,    \* per request: times fn(req, db) was invoked
    failed,     \* per request: a store operation of this call failed
    writes,     \* per request: store writes this call performed
    calls,      \* per key: calls started in the counter's current window
    allowed,    \* per key: calls ended Allowed in the current window
    expired,    \* per key: value the counter held when it last expired
    started,    \* calls started since the beginning of the run
    lk,         \* LookupHandler: its position, locals and response
    db,         \* the rows the range query runs over
    serving,    \* the request whose fn(req, db) call lk is the run of, 0: none
    nets        \* var reservedIPs: the reserved networks, in the order of the scan

qvars == << store, now, pc, key, el, http, fnCalls, failed, writes,
            calls, allowed, expired, started >>

lvars == << lk, db, serving, nets >>

vars == << qvars, lvars >>

Live(k) == store[k].present /\ now < store[k].exp

\* the counter as a subsequent read sees it; 0 when the key is absent
Counter(k) == IF Live(k) THEN Atoi(store[k].val) ELSE 0

Item(n, e) == [present |-> TRUE, val |-> Itoa(n), exp |-> e]

\* memcache Set: stores the value under k, replacing any item, to expire
\* ttl seconds from now
\* (variant: ttl taken as the absolute expiry time)
MemcacheSetAbsoluteExpiry(s, k, v, ttl) ==
    [s EXCEPT ![k] = [present |-> TRUE, val |-> v, exp |-> ttl]]

\* (variant: the item is stored under every key)
MemcacheSetEveryKey(s, k, v, ttl) ==
    [j \in DOMAIN s |-> [present |-> TRUE, val |-> v, exp |-> now + ttl]]

MemcacheSet(s, k, v, ttl) ==
    [s EXCEPT ![k] = [present |-> TRUE, val |-> v, exp |-> now + ttl]]

\* memcache Increment: adds delta to the decimal value stored under k in one
\* store operation; the item keeps its expiry
\* (variant: the value is left as it is)
MemcacheIncrementNothing(s, k, delta) == s

MemcacheIncrement(s, k, delta) ==
    [s EXCEPT ![k].val = Itoa(Atoi(@) + delta)]

\* count < maxRequestsPerIP
\* (variant: count <= maxRequestsPerIP)
UnderQuotaInclusive(count) == count <= maxRequestsPerIP

\* (variant: count < maxRequestsPerIP - 1)
UnderQuotaEarly(count) == count < maxRequestsPerIP - 1

UnderQuota(count) == count < maxRequestsPerIP

TypeOK ==
    /\ now \in 0..(MaxTime + TickStep)
    /\ pc \in [Procs -> {"idle", "get", "set", "incr", "done"}]
    /\ key \in [Procs -> Keys \cup {NoKey}]
    /\ http \in [Procs -> {0, 403, 503}]
    /\ fnCalls \in [Procs -> 0..1]
    /\ failed \in [Procs -> BOOLEAN]
    /\ \A k \in Keys : store[k].present \in BOOLEAN

\* ----------------------------------------------------------- initial states
ProcInit ==
    /\ pc = [p \in Procs |-> "idle"]
    /\ key = [p \in Procs |-> NoKey]
    /\ el = [p \in Procs |-> Nil]
    /\ http = [p \in Procs |-> 0]
    /\ fnCalls = [p \in Procs |-> 0]
    /\ failed = [p \in Procs |-> FALSE]
    /\ writes = [p \in Procs |-> 0]
    /\ started = 0
    /\ now = 0
    /\ expired = [k \in Keys |-> Nil]

\* no lookup runs
LookupOff ==
    /\ lk = LkOff
    /\ db = {}
    /\ serving = 0
    /\ nets = reservedIPs

\* A fresh store: no key has a counter.
InitFresh ==
    /\ ProcInit
    /\ LookupOff
    /\ store = [k \in Keys |-> NoItem]
    /\ calls = [k \in Keys |-> 0]
    /\ allowed = [k \in Keys |-> 0]

\* Counters some way into their window: a counter created at time 0 that
\* c sequential allowed calls have brought to c (c = 0: the key is absent).
InitCounts == {0} \cup ((maxRequestsPerIP - NearCeiling)..maxRequestsPerIP)

InitLoaded ==
    /\ ProcInit
    /\ LookupOff
    /\ \E c \in [Keys -> InitCounts] :
          /\ store = [k \in Keys |->
                        IF c[k] = 0 THEN NoItem ELSE Item(c[k], expirySeconds)]
          /\ calls = c
          /\ allowed = c

\* ------------------------------------------------------- checkQuota, steps
\* the handler is entered: k := strings.Split(req.HTTP.RemoteAddr, ":")[0]
Start(p, ra) ==
    /\ pc[p] = "idle"
    /\ pc' = [pc EXCEPT ![p] = "get"]
    /\ key' = [key EXCEPT ![p] = ClientKey(ra)]
    /\ el' = [el EXCEPT ![p] = Nil]
    /\ http' = [http EXCEPT ![p] = 0]
    /\ fnCalls' = [fnCalls EXCEPT ![p] = 0]
    /\ failed' = [failed EXCEPT ![p] = FALSE]
    /\ writes' = [writes EXCEPT ![p] = 0]
    /\ calls' = [calls EXCEPT ![ClientKey(ra)] = @ + 1]
    /\ started' = started + 1
    /\ UNCHANGED << store, now, allowed, expired >>
    /\ UNCHANGED lvars

\* fn(req, db): the request is let through to the lookup
Allow(p) ==
    /\ pc' = [pc EXCEPT ![p] = "done"]
    /\ fnCalls' = [fnCalls EXCEPT ![p] = @ + 1]
    /\ allowed' = [allowed EXCEPT ![key[p]] = @ + 1]

\* count >= maxRequestsPerIP: req.HTTPError(403); return
\* (variant: the denied request is counted as well)
DenyAfterCounting(p) ==
    /\ pc' = [pc EXCEPT ![p] = "done"]
    /\ http' = [http EXCEPT ![p] = 403]
    /\ store' = MemcacheIncrement(store, key[p], 1)
    /\ writes' = [writes EXCEPT ![p] = @ + 1]
    /\ UNCHANGED fnCalls

\* (variant: no return after the error response, fn(req, db) follows)
DenyWithoutReturn(p) ==
    /\ pc' = [pc EXCEPT ![p] = "done"]
    /\ http' = [http EXCEPT ![p] = 403]
    /\ fnCalls' = [fnCalls EXCEPT ![p] = @ + 1]
    /\ UNCHANGED << store, writes >>

Deny(p) ==
    /\ pc' = [pc EXCEPT ![p] = "done"]
    /\ http' = [http EXCEPT ![p] = 403]
    /\ UNCHANGED << store, writes, fnCalls >>

\* el, err := mc.Get(k) finds the item; count := Atoi(el.Value); the
\* Increment is next when count < maxRequestsPerIP, else the call is denied
GetHit(p) ==
    /\ pc[p] = "get"
    /\ Live(key[p])
    /\ el' = [el EXCEPT ![p] = store[key[p]].val]
    /\ IF UnderQuota(Atoi(store[key[p]].val))
          THEN /\ pc' = [pc EXCEPT ![p] = "incr"]
               /\ UNCHANGED << http, store, writes, fnCalls >>
          ELSE Deny(p)
    /\ UNCHANGED << now, key, failed, calls, allowed, expired, started >>
    /\ UNCHANGED lvars

\* mc.Get(k) returns memcache.ErrCacheMiss
GetMiss(p) ==
    /\ pc[p] = "get"
    /\ ~Live(key[p])
    /\ pc' = [pc EXCEPT ![p] = "set"]
    /\ UNCHANGED << store, now, key, el, http, fnCalls, failed, writes,
                    calls, allowed, expired, started >>
    /\ UNCHANGED lvars

\* mc.Get(k) returns another error: HTTPError(503), return
GetFail(p) ==
    /\ pc[p] = "get"
    /\ pc' = [pc EXCEPT ![p] = "done"]
    /\ http' = [http EXCEPT ![p] = 503]
    /\ failed' = [failed EXCEPT ![p] = TRUE]
    /\ UNCHANGED << store, now, key, el, fnCalls, writes,
                    calls, allowed, expired, started >>
    /\ UNCHANGED lvars

\* mc.Set(&Item{Key: k, Value: "1", Expiration: expirySeconds}) succeeds;
\* el is nil, so the handler goes straight to fn(req, db)
SetOk(p) ==
    /\ pc[p] = "set"
    /\ store' = MemcacheSet(store, key[p], <<1>>, expirySeconds)
    /\ writes' = [writes EXCEPT ![p] = @ + 1]
    /\ Allow(p)
    /\ UNCHANGED << now, key, el, http, failed, calls, expired, started >>
    /\ UNCHANGED lvars

\* mc.Set fails: HTTPError(503), return
SetFail(p) ==
    /\ pc[p] = "set"
    /\ pc' = [pc EXCEPT ![p] = "done"]
    /\ http' = [http EXCEPT ![p] = 503]
    /\ failed' = [failed EXCEPT ![p] = TRUE]
    /\ UNCHANGED << store, now, key, el, fnCalls, writes,
                    calls, allowed, expired, started >>
    /\ UNCHANGED lvars

\* mc.Increment(k, 1) adds 1 to the stored value in one store operation,
\* keeping the item's expiry; then fn(req, db)
IncrementOk(p) ==
    /\ pc[p] = "incr"
    /\ Live(key[p])
    /\ store' = MemcacheIncrement(store, key[p], 1)
    /\ writes' = [writes EXCEPT ![p] = @ + 1]
    /\ Allow(p)
    /\ UNCHANGED << now, key, el, http, failed, calls, expired, started >>
    /\ UNCHANGED lvars

\* mc.Increment(k, 1) finds no item (it expired since the Get); the result
\* is not looked at; then fn(req, db)
IncrementMiss(p) ==
    /\ pc[p] = "incr"
    /\ ~Live(key[p])
    /\ Allow(p)
    /\ UNCHANGED << store, now, key, el, http, failed, writes,
                    calls, expired, started >>
    /\ UNCHANGED lvars

\* mc.Increment(k, 1) fails at the store; the result is not looked at;
\* then fn(req, db)
IncrementFail(p) ==
    /\ pc[p] = "incr"
    /\ failed' = [failed EXCEPT ![p] = TRUE]
    /\ Allow(p)
    /\ UNCHANGED << store, now, key, el, http, writes,
                    calls, expired, started >>
    /\ UNCHANGED lvars

\* the handler has returned: its locals are gone, the request slot is free
Returned(p) ==
    /\ pc[p] = "done"
    /\ pc' = [pc EXCEPT ![p] = "idle"]
    /\ el' = [el EXCEPT ![p] = Nil]
    /\ http' = [http EXCEPT ![p] = 0]
    /\ fnCalls' = [fnCalls EXCEPT ![p] = 0]
    /\ failed' = [failed EXCEPT ![p] = FALSE]
    /\ writes' = [writes EXCEPT ![p] = 0]
    /\ key' = [key EXCEPT ![p] = NoKey]
    /\ UNCHANGED << store, now, calls, allowed, expired, started >>

Return(p) ==
    /\ Returned(p)
    /\ UNCHANGED lvars

\* The clock advances; the store drops every item whose TTL has elapsed.
Tick ==
    /\ now < MaxTime
    /\ now' = now + TickStep
    /\ store' = [k \in Keys |->
                   IF store[k].present /\ store[k].exp <= now'
                      THEN NoItem ELSE store[k]]
    /\ expired' = [k \in Keys |->
                   IF store[k].present /\ store[k].exp <= now'
                      THEN store[k].val ELSE expired[k]]
    /\ calls' = [k \in Keys |->
                   IF store[k].present /\ store[k].exp <= now'
                      THEN 0 ELSE calls[k]]
    /\ allowed' = [k \in Keys |->
                   IF store[k].present /\ store[k].exp <= now'
                      THEN 0 ELSE allowed[k]]
    /\ UNCHANGED << pc, key, el, http, fnCalls, failed, writes, started >>
    /\ UNCHANGED lvars

\* ----------------------------------------------------- LookupHandler, steps
\* IP := net.ParseIP(addr); geoip := GeoIP{Ip: addr}; the reserved scan; a
\* reserved address gets the sentinel, any other goes to the range query
ReservedRecord(g) == [g EXCEPT !.CountryCode = "RD", !.CountryName = "Reserved"]

LkScan ==
    /\ lk.pc = "start"
    /\ \E ip \in {ParseIP(lk.addr)} :
         \E res \in {IsReserved(nets, ip)} :
            lk' = [lk EXCEPT
                     !.IP = ip,
                     !.reserved = res,
                     !.geoip = IF res THEN ReservedRecord(GeoIP(lk.addr))
                                      ELSE GeoIP(lk.addr),
                     !.pc = IF res THEN "write" ELSE "prepare"]
    /\ UNCHANGED << db, serving, nets, qvars >>

\* stmt, err := db.Prepare(q) succeeds
LkPrepareOk ==
    /\ lk.pc = "prepare"
    /\ lk' = [lk EXCEPT !.dbops = Append(@, <<"Prepare">>), !.pc = "query"]
    /\ UNCHANGED << db, serving, nets, qvars >>

\* db.Prepare(q) fails: req.HTTPError(404, err); return
LkPrepareFail ==
    /\ lk.pc = "prepare"
    /\ lk' = [lk EXCEPT !.dbops = Append(@, <<"Prepare">>),
                        !.err = "prepare failed",
                        !.status = 404, !.pc = "done"]
    /\ UNCHANGED << db, serving, nets, qvars >>

\* stmt.QueryRow(uintIP).Scan(&geoip...): the row's columns land in geoip;
\* with no row Scan returns sql.ErrNoRows: req.HTTPError(500, err); return
Scanned(g, r) ==
    [g EXCEPT !.CountryCode = r.CountryCode, !.CountryName = r.CountryName,
              !.RegionCode = r.RegionCode, !.RegionName = r.RegionName,
              !.CityName = r.CityName, !.ZipCode = r.ZipCode,
              !.Latitude = r.Latitude, !.Longitude = r.Longitude,
              !.MetroCode = r.MetroCode, !.AreaCode = r.AreaCode]

LkQueryRow ==
    /\ lk.pc = "query"
    /\ LET uintIP == BigEndianUint32(To4(lk.IP))
           rows == QueryRows(db, uintIP)
       IN  IF rows # {}
              THEN \E r \in rows :
                     lk' = [lk EXCEPT
                              !.dbops = Append(@, <<"QueryRow", uintIP>>),
                              !.geoip = Scanned(@, r),
                              !.pc = "write"]
              ELSE lk' = [lk EXCEPT
                            !.dbops = Append(@, <<"QueryRow", uintIP>>),
                            !.err = "sql.ErrNoRows",
                            !.status = 500, !.pc = "done"]
    /\ UNCHANGED << db, serving, nets, qvars >>

\* the query fails at the storage: req.HTTPError(500, err); return
LkQueryFail ==
    /\ lk.pc = "query"
    /\ lk' = [lk EXCEPT
                !.dbops = Append(@, <<"QueryRow", BigEndianUint32(To4(lk.IP))>>),
                !.err = "query failed",
                !.status = 500, !.pc = "done"]
    /\ UNCHANGED << db, serving, nets, qvars >>

\* switch format[0]: the record is written in the requested format
ContentType(format) ==
    IF Head(format) = "c" THEN "application/csv"
    ELSE IF Head(format) = "j" THEN "application/json"
    ELSE IF Head(format) = "x" THEN "application/xml"
    ELSE ""

LkWrite ==
    /\ lk.pc = "write"
    /\ lk' = [lk EXCEPT !.status = 200, !.contentType = ContentType(lk.format),
                        !.body = lk.geoip, !.pc = "done"]
    /\ UNCHANGED << db, serving, nets, qvars >>

\* ------------------------------------------- the request, check and lookup
\* what the requests of the end-to-end model ask for, and the range table
\* they are answered from
ReqAddrs == { DottedQuad(8, 8, 8, 8), DottedQuad(10, 0, 0, 1) }

ReqFormats == { <<"j", "s", "o", "n">> }

ReqTable == { Row(U32(2056, 2049), 1), Row(U32(51200, 1), 2) }

\* fn(req, db) is LookupHandler (main: checkQuota(mc, db, LookupHandler)):
\* the call the check made starts to run
LkEnter(p) ==
    /\ pc[p] = "done"
    /\ fnCalls[p] > 0
    /\ serving = 0
    /\ lk.pc = "off"
    /\ serving' = p
    /\ \E fmt \in ReqFormats, addr \in ReqAddrs : lk' = LkIdle(fmt, addr)
    /\ UNCHANGED << db, nets, qvars >>

\* fn(req, db) has returned, and with it the handler
ReturnServed(p) ==
    /\ serving = p
    /\ lk.pc = "done"
    /\ Returned(p)
    /\ lk' = LkOff
    /\ serving' = 0
    /\ UNCHANGED << db, nets >>

\* ---------------------------------------------------------------- outcomes
Allowed(p) == pc[p] = "done" /\ fnCalls[p] = 1
Denied(p) == pc[p] = "done" /\ http[p] = 403
BackendUnavailable(p) == pc[p] = "done" /\ http[p] = 503

Idle == \A p \in Procs : pc[p] = "idle"
Quiescent(k) == \A p \in Procs : key[p] = k => pc[p] \in {"idle", "done"}

\* ---------------------------------------------------------- specifications
\* Requests arrive at any time and run concurrently; the store and the clock
\* behave in every way they can.
Next ==
    \/ \E p \in Procs, ra \in RemoteAddrs :
          started < MaxCallsFaulty /\ Start(p, ra)
    \/ \E p \in Procs : GetHit(p)
    \/ \E p \in Procs : GetMiss(p)
    \/ \E p \in Procs : GetFail(p)
    \/ \E p \in Procs : SetOk(p)
    \/ \E p \in Procs : SetFail(p)
    \/ \E p \in Procs : IncrementOk(p)
    \/ \E p \in Procs : IncrementMiss(p)
    \/ \E p \in Procs : IncrementFail(p)
    \/ \E p \in Procs : Return(p)
    \/ Tick

Spec == InitLoaded /\ [][Next]_vars

\* Concurrent requests inside one window, the store reachable throughout.
NextConc ==
    \/ \E p \in Procs, ra \in RemoteAddrs : started < MaxCalls /\ Start(p, ra)
    \/ \E p \in Procs : GetHit(p)
    \/ \E p \in Procs : GetMiss(p)
    \/ \E p \in Procs : SetOk(p)
    \/ \E p \in Procs : IncrementOk(p)
    \/ \E p \in Procs : Return(p)

SpecConc == InitLoaded /\ [][NextConc]_vars

\* One client's requests issued one after another inside one window, from a
\* fresh store, the store reachable throughout.
NextSeq ==
    \/ \E p \in Procs, ra \in RemoteAddrs :
          /\ Idle
          /\ started < maxRequestsPerIP + ExtraCalls
          /\ \A k \in Keys \ {ClientKey(ra)} : calls[k] = 0
          /\ Start(p, ra)
    \/ \E p \in Procs : GetHit(p)
    \/ \E p \in Procs : GetMiss(p)
    \/ \E p \in Procs : SetOk(p)
    \/ \E p \in Procs : IncrementOk(p)
    \/ \E p \in Procs : Return(p)

SpecSeq == InitFresh /\ [][NextSeq]_vars

\* Requests issued one after another, the clock advancing between them, the
\* store reachable throughout.
NextExpiry ==
    \/ \E p \in Procs, ra \in RemoteAddrs :
          Idle /\ started < MaxCalls /\ Start(p, ra)
    \/ \E p \in Procs : GetHit(p)
    \/ \E p \in Procs : GetMiss(p)
    \/ \E p \in Procs : SetOk(p)
    \/ \E p \in Procs : IncrementOk(p)
    \/ \E p \in Procs : Return(p)
    \/ Idle /\ Tick

SpecExpiry == InitLoaded /\ [][NextExpiry]_vars

\* One lookup of any address in any format over any of the range tables, the
\* storage failing at will.
InitLookup ==
    /\ ProcInit
    /\ store = [k \in Keys |-> NoItem]
    /\ calls = [k \in Keys |-> 0]
    /\ allowed = [k \in Keys |-> 0]
    /\ db \in Tables
    /\ serving = 0
    /\ nets = reservedIPs
    /\ \E fmt \in Formats, addr \in Addrs : lk = LkIdle(fmt, addr)

NextLookup ==
    \/ LkScan
    \/ LkPrepareOk
    \/ LkPrepareFail
    \/ LkQueryRow
    \/ LkQueryFail
    \/ LkWrite

SpecLookup == InitLookup /\ [][NextLookup]_vars

\* Requests end to end: the quota check and, when the check lets the request
\* through, the lookup; the store and the storage failing at will.
InitRequest ==
    /\ ProcInit
    /\ lk = LkOff
    /\ serving = 0
    /\ nets = reservedIPs
    /\ db = ReqTable
    /\ \E c \in [Keys -> InitCounts] :
          /\ store = [k \in Keys |->
                        IF c[k] = 0 THEN NoItem ELSE Item(c[k], expirySeconds)]
          /\ calls = c
          /\ allowed = c

NextRequest ==
    \/ \E p \in Procs, ra \in RemoteAddrs :
          started < MaxCallsFaulty /\ Start(p, ra)
    \/ \E p \in Procs : GetHit(p)
    \/ \E p \in Procs : GetMiss(p)
    \/ \E p \in Procs : GetFail(p)
    \/ \E p \in Procs : SetOk(p)
    \/ \E p \in Procs : SetFail(p)
    \/ \E p \in Procs : IncrementOk(p)
    \/ \E p \in Procs : IncrementFail(p)
    \/ \E p \in Procs : fnCalls[p] = 0 /\ Return(p)
    \/ \E p \in Procs : LkEnter(p)
    \/ LkScan
    \/ LkPrepareOk
    \/ LkPrepareFail
    \/ LkQueryRow
    \/ LkQueryFail
    \/ LkWrite
    \/ \E p \in Procs : ReturnServed(p)

SpecRequest == InitRequest /\ [][NextRequest]_vars

\* One lookup of any address with the reserved table in any of its orders.
InitOrder ==
    /\ ProcInit
    /\ store = [k \in Keys |-> NoItem]
    /\ calls = [k \in Keys |-> 0]
    /\ allowed = [k \in Keys |-> 0]
    /\ db = ReqTable
    /\ serving = 0
    /\ nets \in Orders
    /\ \E fmt \in ReqFormats, addr \in Addrs : lk = LkIdle(fmt, addr)

SpecOrder == InitOrder /\ [][NextLookup]_vars

\* =================================================================== claims

\* C1: M concurrent calls for one key inside one window, M within the
\* headroom to 2000, are all Allowed and leave the counter at the pre-call
\* count plus M, the absent key (pre-call count 0) included.  calls[k] is
\* the pre-call count plus the calls started since.
C1_NoLostUpdates ==
    \A k \in Keys :
        (Quiescent(k) /\ calls[k] <= maxRequestsPerIP)
            => (allowed[k] = calls[k] /\ Counter(k) = calls[k])

\* C2: the stored counter of a key never exceeds 2000.
C2_CounterAtMostCeiling ==
    \A k \in Keys : Counter(k) <= maxRequestsPerIP

\* C3: at most 2000 calls of a key end Allowed in one window.
C3_AllowedAtMostCeiling ==
    \A k \in Keys : allowed[k] <= maxRequestsPerIP

\* C4: one key's calls issued one after another from an absent counter:
\* calls 1..2000 are Allowed, every later call is Denied (403, fn not
\* invoked) and leaves the counter at 2000.
C4_Ceiling ==
    \A p \in Procs :
        pc[p] = "done" =>
            IF calls[key[p]] <= maxRequestsPerIP
               THEN Allowed(p) /\ http[p] = 0
               ELSE /\ Denied(p)
                    /\ fnCalls[p] = 0
                    /\ Counter(key[p]) = maxRequestsPerIP

C4_Witness ==
    \E p \in Procs :
        /\ Denied(p)
        /\ calls[key[p]] = maxRequestsPerIP + ExtraCalls
        /\ allowed[key[p]] = maxRequestsPerIP
        /\ Counter(key[p]) = maxRequestsPerIP

\* C5: after N consecutive Allowed calls from an absent counter, N in
\* 1..2000, a read of the counter returns N.
C5_CounterIsN ==
    \A k \in Keys :
        (Quiescent(k) /\ allowed[k] \in 1..maxRequestsPerIP)
            => (Live(k) /\ Atoi(store[k].val) = allowed[k])

C5_Witness ==
    \E k \in Keys :
        /\ Idle
        /\ allowed[k] = maxRequestsPerIP - 1
        /\ calls[k] = maxRequestsPerIP - 1
        /\ Atoi(store[k].val) = maxRequestsPerIP - 1

\* C6: a call during which a store operation failed ends with 503 and is
\* neither Allowed nor Denied.
C6_FailureIsUnavailable ==
    \A p \in Procs :
        (pc[p] = "done" /\ failed[p])
            => (BackendUnavailable(p) /\ ~Allowed(p) /\ ~Denied(p))

\* C7: a call that ends Denied has written nothing to the store: the step
\* that denies leaves the store as it was and no earlier step of the call
\* wrote.
C7_DeniedWritesNothing ==
    [][\A p \in Procs :
          (~Denied(p) /\ Denied(p)') => (store' = store /\ writes'[p] = 0)]_vars

C7_Witness ==
    \E p \in Procs :
        /\ Denied(p)
        /\ Counter(key[p]) = maxRequestsPerIP
        /\ store[key[p]].exp = expirySeconds
        /\ now > 0

\* C8: the first call for a key after its counter has expired is Allowed
\* and leaves the counter at 1, expiring 3600 s later.
C8_FreshWindow ==
    \A p \in Procs :
        (pc[p] = "done" /\ expired[key[p]] # Nil /\ calls[key[p]] = 1)
            => /\ Allowed(p)
               /\ store[key[p]].present
               /\ Atoi(store[key[p]].val) = 1
               /\ store[key[p]].exp = now + expirySeconds
               /\ now >= expirySeconds

C8_Witness ==
    \E p \in Procs :
        /\ Allowed(p)
        /\ expired[key[p]] = Itoa(maxRequestsPerIP)
        /\ calls[key[p]] = 1
        /\ Counter(key[p]) = 1

\* C9: a step of a call changes no item but that of the call's own key,
\* and what its Get returns is what the store holds under that key.
StepKey(p) == IF pc[p] = "idle" THEN key'[p] ELSE key[p]

C9_Isolation ==
    [][\A p \in Procs :
          pc'[p] # pc[p] =>
            /\ \A k \in Keys \ {StepKey(p)} :
                  /\ store'[k] = store[k]
                  /\ allowed'[k] = allowed[k]
            /\ (pc[p] = "get" /\ ~failed'[p]) =>
                  IF Live(key[p])
                     THEN el'[p] = store[key[p]].val /\ pc'[p] # "set"
                     ELSE el'[p] = Nil /\ pc'[p] = "set"]_vars

C9_Witness ==
    \E p, q \in Procs :
        /\ Allowed(p) /\ writes[p] = 1
        /\ pc[q] = "incr" /\ key[q] # key[p]
        /\ Counter(key[q]) = maxRequestsPerIP - 1
        /\ Counter(key[p]) = 1

\* C10: an address that some entry of the reserved table contains
\* (A & mask = base & mask) gets the record with country_code "RD" and
\* country_name "Reserved", every other field but the echoed ip zero, and
\* the handler issues no storage query for it.
\* The address the text denotes, as four numbers; none when it denotes no
\* IPv4 address.
QuadOf(text) ==
    IF text.form = "v4" /\ (\A i \in 1..4 : text.parts[i] <= 255)
       THEN text.parts
    ELSE IF text.form = "v6" /\ SubSeq(text.parts, 1, 12) = v4InV6Prefix
       THEN SubSeq(text.parts, 13, 16)
    ELSE <<>>

\* x & m for a mask byte m = 256 - 2^j: x less its remainder modulo 2^j
Masked(x, m) == x - (x % (256 - m))

InReservedRange(text) ==
    /\ QuadOf(text) # <<>>
    /\ \E e \in 1..Len(reservedIPs) :
          \A i \in 1..4 :
             Masked(QuadOf(text)[i], reservedIPs[e].Mask[i])
                = Masked(reservedIPs[e].IP[12 + i], reservedIPs[e].Mask[i])

Sentinel(text) ==
    [ Ip |-> text, CountryCode |-> "RD", CountryName |-> "Reserved",
      RegionCode |-> "", RegionName |-> "", CityName |-> "", ZipCode |-> "",
      Latitude |-> 0, Longitude |-> 0, MetroCode |-> "", AreaCode |-> "" ]

C10_ReservedSentinel ==
    (lk.pc \notin {"off", "start"} /\ InReservedRange(lk.addr)) =>
        /\ lk.pc \in {"write", "done"}
        /\ lk.geoip = Sentinel(lk.addr)
        /\ lk.dbops = <<>>
        /\ lk.pc = "done" => (lk.status = 200 /\ lk.body = Sentinel(lk.addr))

C10_Witness ==
    /\ lk.pc = "done"
    /\ lk.addr = DottedQuad(10, 63, 255, 255)
    /\ lk.body = Sentinel(lk.addr)
    /\ lk.dbops = <<>>
    /\ db # {}

\* ------------------------------------------------------- lookup outcomes
\* NotFound is the client-visible "unknown address" response, LookupError the
\* server-side failure response; a record is returned when one is written.
NotFound == lk.pc = "done" /\ lk.status = 404
LookupError == lk.pc = "done" /\ lk.status = 500
RecordReturned == lk.pc = "done" /\ lk.status = 200

StorageFailed == lk.err \in {"prepare failed", "query failed"}

\* the four bytes of a uint32, most significant first, and their order
BytesOfU32(u) == <<u[1] \div 256, u[1] % 256, u[2] \div 256, u[2] % 256>>

LexLeq(a, b) ==
    \/ a = b
    \/ \E i \in 1..4 : a[i] < b[i] /\ \A j \in 1..(i - 1) : a[j] = b[j]

\* the rows of the table that start at or below the address
RowsAtOrBelow(text) ==
    { r \in db : LexLeq(BytesOfU32(r.ip_start), QuadOf(text)) }

\* the record that carries the address and the row's columns
RecordOf(text, r) ==
    [ Ip |-> text, CountryCode |-> r.CountryCode,
      CountryName |-> r.CountryName, RegionCode |-> r.RegionCode,
      RegionName |-> r.RegionName, CityName |-> r.CityName,
      ZipCode |-> r.ZipCode, Latitude |-> r.Latitude,
      Longitude |-> r.Longitude, MetroCode |-> r.MetroCode,
      AreaCode |-> r.AreaCode ]

PlainV4(text) == QuadOf(text) # <<>> /\ ~InReservedRange(text)

\* The lookup of an IPv4 address outside the reserved ranges, the storage
\* answering, that has a row at or below it returns the row with the
\* greatest ip_start at or below it.
PredecessorRowReturned ==
    (lk.pc = "done" /\ PlainV4(lk.addr) /\ ~StorageFailed
       /\ RowsAtOrBelow(lk.addr) # {})
        => /\ RecordReturned
           /\ \E r \in RowsAtOrBelow(lk.addr) :
                 /\ \A o \in RowsAtOrBelow(lk.addr) :
                       LexLeq(BytesOfU32(o.ip_start), BytesOfU32(r.ip_start))
                 /\ lk.body = RecordOf(lk.addr, r)

\* C11: for an IPv4 address in no reserved range the lookup returns the
\* payload of the row with the greatest ip_start at or below the address's
\* big-endian value; when the address is below every ip_start the result is
\* NotFound and no record is returned.
C11_Predecessor ==
    (lk.pc = "done" /\ PlainV4(lk.addr) /\ ~StorageFailed)
        => IF RowsAtOrBelow(lk.addr) # {}
              THEN PredecessorRowReturned
              ELSE NotFound /\ lk.body = NoRecord

\* C12: the absence of a qualifying row ends NotFound and a storage failure
\* ends LookupError; neither condition ends with the other's outcome.
NoQualifyingRow == lk.err = "sql.ErrNoRows"

C12_NotFoundIsNotLookupError ==
    lk.pc = "done" =>
        /\ NoQualifyingRow => (NotFound /\ ~LookupError)
        /\ StorageFailed => (LookupError /\ ~NotFound)

\* C13: the lookup runs only for a request whose quota check has completed
\* without an error response: a request answered 403 or 503 never has
\* fn(req, db) invoked and no storage query is issued for it, and a request
\* let through has it invoked exactly once.
CheckAllowed(p) == pc[p] = "done" /\ http[p] = 0

C13_LookupOnlyAfterAllowed ==
    /\ \A p \in Procs :
          /\ pc[p] \in {"idle", "get", "set", "incr"}
                => (fnCalls[p] = 0 /\ serving # p)
          /\ (pc[p] = "done" /\ http[p] \in {403, 503})
                => (fnCalls[p] = 0 /\ serving # p)
          /\ CheckAllowed(p) => fnCalls[p] = 1
    /\ lk.pc # "off" => (serving \in Procs /\ CheckAllowed(serving))
    /\ lk.dbops # <<>> => (serving \in Procs /\ CheckAllowed(serving))

C13_Witness ==
    \E p, q \in Procs :
        /\ serving = p /\ CheckAllowed(p)
        /\ lk.pc = "done" /\ Len(lk.dbops) = 2
        /\ pc[q] = "done" /\ http[q] = 403 /\ fnCalls[q] = 0

\* C14: the initialising write (value 1, TTL 3600 s) never lands on a counter
\* that exists, so while a counter exists its value never decreases and its
\* expiry never changes.
InitialisingWrite(p) == pc[p] = "set" /\ pc'[p] = "done" /\ http'[p] = 0

C14_CreateIfAbsent ==
    [][/\ \A p \in Procs : InitialisingWrite(p) => ~Live(key[p])
       /\ \A k \in Keys :
             (store[k].present /\ store'[k].present)
                => /\ Atoi(store'[k].val) >= Atoi(store[k].val)
                   /\ store'[k].exp = store[k].exp]_vars

\* C15: every call that ends Allowed, the store reachable for it, has made
\* exactly one write to its key's counter, the Set that creates it with 1 or
\* the Increment that adds 1 to it; also when the counter's TTL elapses
\* between the call's Get and its Increment.
C15_AllowedHasCounted ==
    \A p \in Procs : (Allowed(p) /\ ~failed[p]) => writes[p] = 1

\* the step of call p that ends its mc.Increment(k, 1)
IncrementStep(p) == pc[p] = "incr" /\ pc'[p] = "done"

\* An Increment leaves the expiry of the item as it found it.
IncrementKeepsExpiry ==
    [][\A p \in Procs :
          IncrementStep(p) => store'[key[p]].exp = store[key[p]].exp]_vars

\* C16: the expiry of a counter is fixed when the counter is created: no
\* call that follows moves the expiry of a live counter, so the window ends
\* 3600 s after the call that created it.
C16_ExpiryFixedAtCreation ==
    [][\A k \in Keys :
          (Live(k) /\ store'[k].present)
             => store'[k].exp = store[k].exp]_vars

\* C17: a call ends Denied only if its Get found the counter and the value
\* read was >= 2000; a call that finds the key absent, or reads a value below
\* 2000, is never Denied.
C17_DeniedOnlyAtCeiling ==
    \A p \in Procs :
       Denied(p) => (el[p] # Nil /\ Atoi(el[p]) >= maxRequestsPerIP)

C17_Witness ==
    \E p \in Procs :
       Denied(p) /\ el[p] # Nil /\ Atoi(el[p]) >= maxRequestsPerIP

\* the text is no IPv4 address: it does not parse, or it is an IPv6 address
\* with no 4-byte form
NotIPv4(text) == To4(ParseIP(text)) = NilIP

\* the range query has been issued
Queried == \E i \in 1..Len(lk.dbops) : lk.dbops[i][1] = "QueryRow"

\* C18: the lookup of an input that is no IPv4 address never queries the
\* range table with a substitute numeric value and never returns a
\* range-table row; it ends in an error or unsupported outcome.
C18_NonIPv4NotQueried ==
    (lk.pc # "off" /\ NotIPv4(lk.addr)) => (~Queried /\ ~RecordReturned)

\* the entry of table ns at which the scan for the address stops
MatchedEntry(ns, ip) == ns[FirstContaining(ns, ip, 1)]

\* C19: the reserved decision does not depend on the order of the reserved
\* table: in every order of reservedIPs the scan gives an address the answer
\* it gives in the order of the source, and a reserved address the same
\* sentinel record.
C19_OrderIndependent ==
    lk.pc \notin {"off", "start"} =>
        /\ lk.reserved = IsReserved(reservedIPs, ParseIP(lk.addr))
        /\ lk.reserved => /\ lk.pc \in {"write", "done"}
                          /\ lk.geoip = Sentinel(lk.addr)
                          /\ lk.pc = "done" => lk.body = Sentinel(lk.addr)

\* a reserved address inside overlapping entries, looked up with the table in
\* an order in which the scan stops at another entry than in the source's
C19_Witness ==
    /\ lk.pc = "done"
    /\ lk.reserved
    /\ nets # reservedIPs
    /\ MatchedEntry(nets, lk.IP) # MatchedEntry(reservedIPs, lk.IP)
    /\ lk.body = Sentinel(lk.addr)

====
